---- MODULE Spec2Model ----
(***************************************************************************)
(* Study-session lifecycle, tag index and per-owner row filtering of the   *)
(* Locked-In Toolbox backend: the StudySessionService methods together     *)
(* with the tables, triggers, row-level-security policies and functions    *)
(* of the Supabase migrations they run against.                            *)
(*                                                                         *)
(* Timestamps are counted in ticks of 45 seconds (Seconds).  A session     *)
(* row exists iff its id is in DOMAIN sessions.                            *)
(***************************************************************************)
EXTENDS Integers, Sequences, FiniteSets, TLC

VARIABLES
  sessions,    \* public.study_sessions: id -> row
  tags,        \* public.study_session_tags: set of [session_id, tag]
  tasks,       \* public.tasks: id -> row
  nextId,      \* session ids handed out so far + 1 (uuid_generate_v4 never repeats)
  nextTaskId,  \* task ids handed out so far + 1
  clock,       \* NOW(), in ticks
  endedOk,     \* history: per session id, the last endSession that returned
               \* success: the data it was given and the row it left
  authUsers,   \* auth.users: the ids of the accounts
  userProfiles, \* public.user_profiles: the ids that have a profile row
  calls        \* the service calls started so far that await the store between
               \* two steps, in the order they started

vars == <<sessions, tags, tasks, nextId, nextTaskId, clock, endedOk, authUsers, userProfiles, calls>>

-----------------------------------------------------------------------------
(* Bounds *)

MaxSessions == 2
MaxClock == 2
MaxTags == 2
MaxTasks == 2
MaxDay == 3
MaxStreakSessions == 3
MaxRateTasks == 3
MaxCalls == 2

(* SQL NULL, and a key left out of a TypeScript object (an optional `?:`). *)
NULL == -1
ABSENT == -2

Users == {"A", "B"}
SessionIds == 1..MaxSessions
TaskIds == 1..MaxTasks

\* One tick of the clock, in seconds.
Seconds(t) == t * 45

\* Ratings a caller may send: a value inside the CHECK range and one outside.
RatingInputs == {3, 6}

\* Tags a caller may send, as sequences of characters: "M", "m " and " "
\* (an upper-case letter, a trailing blank, nothing but a blank).
RawTags == {<<"M">>, <<"m", " ">>, <<" ">>}
TagLists == UNION {[1..n -> RawTags] : n \in 1..MaxTags}

-----------------------------------------------------------------------------
(* 001_initial_schema.sql / 003_functions_and_views.sql: the store *)

\* A check with the lower limit only.
RatingCheckFromOne(r) == r = NULL \/ r >= 1

\* column CHECK (mood_rating >= 1 AND mood_rating <= 5); NULL passes a CHECK
RatingCheck(r) == r = NULL \/ (r >= 1 /\ r <= 5)

\* A constraint that lets a session end at the instant it started.
valid_duration_or_equal(row) == row.end_time = NULL \/ row.end_time >= row.start_time

\* CONSTRAINT valid_duration CHECK (end_time IS NULL OR end_time > start_time)
valid_duration(row) == row.end_time = NULL \/ row.end_time > row.start_time

\* A cast that truncates where the assignment cast rounds.
CastToIntegerTruncating(secs) == secs \div 60

\* NEW.duration_minutes := <numeric>: the assignment of a fractional numeric
\* (EXTRACT(EPOCH FROM interval) / 60) to an INTEGER column casts it, and the
\* cast rounds to the nearest integer, ties away from zero.  It does not
\* truncate.
CastToInteger(secs) ==
  IF secs >= 0 THEN (secs + 30) \div 60 ELSE -((-secs + 30) \div 60)

\* A trigger that fills duration_minutes once and leaves a value already
\* stored alone.
calculate_session_duration_once(new) ==
  IF new.end_time # NULL /\ new.start_time # NULL /\ new.duration_minutes = NULL
  THEN [new EXCEPT !.duration_minutes =
          CastToInteger(Seconds(new.end_time) - Seconds(new.start_time))]
  ELSE new

\* calculate_session_duration(), BEFORE INSERT OR UPDATE FOR EACH ROW
calculate_session_duration(new) ==
  IF new.end_time # NULL /\ new.start_time # NULL
  THEN [new EXCEPT !.duration_minutes =
          CastToInteger(Seconds(new.end_time) - Seconds(new.start_time))]
  ELSE new

\* The table's CHECK constraints, applied to the row the trigger returned.
RowChecks(row) ==
  /\ RatingCheck(row.mood_rating)
  /\ valid_duration(row)

\* A policy that lets every authenticated principal through.
OpenSessionPolicy(p, row) == TRUE

\* "Users can view/update/delete own study sessions": USING (auth.uid() = user_id)
SessionPolicy(p, row) == p = row.user_id

\* The session ids principal p can see, update or delete.
VisibleSessions(p) == {s \in DOMAIN sessions : SessionPolicy(p, sessions[s])}

\* "Users can insert own study sessions": WITH CHECK (auth.uid() = user_id)
InsertSessionPolicy(p, row) == p = row.user_id

\* Study Session Tags policies (SELECT, INSERT, DELETE):
\* EXISTS (SELECT 1 FROM study_sessions WHERE id = session_id AND user_id = auth.uid())
TagPolicy(p, sid) == \E s \in DOMAIN sessions : s = sid /\ sessions[s].user_id = p

\* The tag rows principal p can see or delete.
VisibleTags(p) == {r \in tags : TagPolicy(p, r.session_id)}

\* session_id ... REFERENCES study_sessions(id) ON DELETE CASCADE
CascadeTags(sid) == {r \in tags : r.session_id # sid}

\* A trigger that stamps completed_at and never clears it.
set_task_completed_at_only(old, new) ==
  IF new.is_completed = TRUE /\ old.is_completed = FALSE
  THEN [new EXCEPT !.completed_at = clock]
  ELSE new

\* set_task_completed_at(), BEFORE UPDATE ON tasks FOR EACH ROW
set_task_completed_at(old, new) ==
  IF new.is_completed = TRUE /\ old.is_completed = FALSE
  THEN [new EXCEPT !.completed_at = clock]
  ELSE IF new.is_completed = FALSE
  THEN [new EXCEPT !.completed_at = NULL]
  ELSE new

\* What ON DELETE CASCADE would do to the tasks of a deleted session.
CascadeTasks(sid) ==
  [k \in {x \in DOMAIN tasks : tasks[x].session_id # sid} |-> tasks[k]]

\* tasks.session_id ... REFERENCES study_sessions(id) ON DELETE SET NULL: an
\* UPDATE of the referencing rows, which fires the BEFORE UPDATE trigger
SetNullTasks(sid) ==
  [k \in DOMAIN tasks |->
     IF tasks[k].session_id = sid
     THEN set_task_completed_at(tasks[k], [tasks[k] EXCEPT !.session_id = NULL])
     ELSE tasks[k]]

\* "Users can view/update/delete own tasks": USING (auth.uid() = user_id)
TaskPolicy(p, row) == p = row.user_id

VisibleTasks(p) == {k \in DOMAIN tasks : TaskPolicy(p, tasks[k])}

-----------------------------------------------------------------------------
(* ApiResponse<T>: { data, error, success }.  data holds the ids of the     *)
(* session rows returned, in order (<<>> for null or []), or the tag rows   *)
(* returned; the data of a failure is null.                                 *)

Ok(data) == [success |-> TRUE, error |-> "null", data |-> data]
Fail(code) == [success |-> FALSE, error |-> code, data |-> NULL]

Init ==
  /\ sessions = <<>>
  /\ tags = {}
  /\ tasks = <<>>
  /\ nextId = 1
  /\ nextTaskId = 1
  /\ clock = 0
  /\ endedOk = <<>>
  /\ authUsers = Users
  /\ userProfiles = Users
  /\ calls = <<>>

\* Time passes between calls.
Tick ==
  /\ clock < MaxClock
  /\ clock' = clock + 1
  /\ UNCHANGED <<sessions, tags, tasks, nextId, nextTaskId, endedOk, authUsers, userProfiles, calls>>

-----------------------------------------------------------------------------
(* StudySessionService: sessions *)

\* StudySessionInsert as the table stores it: columns left out are NULL.
InsertedRow(sessionData) ==
  [user_id |-> sessionData.user_id,
   start_time |-> sessionData.start_time,
   end_time |-> IF sessionData.end_time = ABSENT THEN NULL ELSE sessionData.end_time,
   duration_minutes |-> NULL,
   mood_rating |-> IF sessionData.mood_rating = ABSENT THEN NULL
                   ELSE sessionData.mood_rating]

SessionInserts ==
  [user_id : Users, start_time : {0, clock},
   end_time : {ABSENT, clock}, mood_rating : {ABSENT} \cup RatingInputs]

\* insert(sessionData).select().single()
createSessionResponse(p, sessionData) ==
  LET new == calculate_session_duration(InsertedRow(sessionData))
  IN IF ~InsertSessionPolicy(p, new) THEN Fail("42501")
     ELSE IF ~RowChecks(new) THEN Fail("23514")
     ELSE Ok(<<nextId>>)

createSession(p, sessionData) ==
  /\ nextId <= MaxSessions
  /\ IF createSessionResponse(p, sessionData).success
     THEN /\ sessions' = sessions @@
                (nextId :> calculate_session_duration(InsertedRow(sessionData)))
          /\ nextId' = nextId + 1
     ELSE UNCHANGED <<sessions, nextId>>
  /\ UNCHANGED <<tags, tasks, nextTaskId, clock, endedOk, authUsers, userProfiles, calls>>

\* select('*').eq('id', sessionId).single()
getSessionResponse(p, sessionId) ==
  IF sessionId \in VisibleSessions(p) THEN Ok(<<sessionId>>) ELSE Fail("PGRST116")

getSession(p, sessionId) ==
  /\ getSessionResponse(p, sessionId).success \in BOOLEAN
  /\ UNCHANGED vars

\* The row an UPDATE ... SET <updates> writes over old, before the triggers.
ApplyUpdates(old, updates) ==
  [old EXCEPT
     !.end_time = IF updates.end_time = ABSENT THEN @ ELSE updates.end_time,
     !.mood_rating = IF updates.mood_rating = ABSENT THEN @ ELSE updates.mood_rating]

\* The row the UPDATE statement stores for a matched row.
UpdatedRow(sessionId, updates) ==
  calculate_session_duration(ApplyUpdates(sessions[sessionId], updates))

SessionUpdates ==
  [end_time : {ABSENT, NULL, clock}, mood_rating : {ABSENT, NULL} \cup RatingInputs]
    \ {[end_time |-> ABSENT, mood_rating |-> ABSENT]}

\* update(updates).eq('id', sessionId).select().single(): no visible row
\* matched: single() reports PGRST116; a CHECK failed: the statement's error.
updateSessionResponse(p, sessionId, updates) ==
  IF sessionId \notin VisibleSessions(p) THEN Fail("PGRST116")
  ELSE IF ~RowChecks(UpdatedRow(sessionId, updates)) THEN Fail("23514")
  ELSE Ok(<<sessionId>>)

\* study_sessions after the call.
sessionsAfterUpdate(p, sessionId, updates) ==
  IF updateSessionResponse(p, sessionId, updates).success
  THEN [sessions EXCEPT ![sessionId] = UpdatedRow(sessionId, updates)]
  ELSE sessions

updateSession(p, sessionId, updates) ==
  /\ sessions' = sessionsAfterUpdate(p, sessionId, updates)
  /\ UNCHANGED <<tags, tasks, nextId, nextTaskId, clock, endedOk, authUsers, userProfiles, calls>>

\* endData?: { mood_rating?: number }
EndDatas == [mood_rating : {ABSENT} \cup RatingInputs]

\* An updates object that names every field, with null for the ones left out.
EndUpdatesAllFields(endData) ==
  [end_time |-> clock,
   mood_rating |-> IF endData.mood_rating = ABSENT THEN NULL ELSE endData.mood_rating]

\* { end_time: new Date().toISOString(), ...endData }
EndUpdates(endData) == [end_time |-> clock, mood_rating |-> endData.mood_rating]

endSessionResponse(p, sessionId, endData) ==
  updateSessionResponse(p, sessionId, EndUpdates(endData))

\* What endSession does to the store.
endSessionStore(p, sessionId, endData) ==
  /\ sessions' = sessionsAfterUpdate(p, sessionId, EndUpdates(endData))
  /\ UNCHANGED <<tags, tasks, nextId, nextTaskId, clock, authUsers, userProfiles, calls>>

endSession(p, sessionId, endData) ==
  /\ endSessionStore(p, sessionId, endData)
  /\ UNCHANGED endedOk

\* endSession, with the history of the calls that returned success.
endSessionLogged(p, sessionId, endData) ==
  /\ endSessionStore(p, sessionId, endData)
  /\ endedOk' = IF endSessionResponse(p, sessionId, endData).success
                THEN [s \in DOMAIN endedOk \cup {sessionId} |->
                        IF s = sessionId
                        THEN [endData |-> endData,
                              row |-> UpdatedRow(sessionId, EndUpdates(endData))]
                        ELSE endedOk[s]]
                ELSE endedOk

\* delete().eq('id', sessionId): only { error } is read, and a DELETE that
\* matches no visible row is no error.
deleteSessionResponse(p, sessionId) == Ok(<<>>)

\* study_sessions, study_session_tags and tasks after the call.
sessionsAfterDelete(p, sessionId) ==
  IF sessionId \in VisibleSessions(p)
  THEN [s \in DOMAIN sessions \ {sessionId} |-> sessions[s]]
  ELSE sessions

tagsAfterDelete(p, sessionId) ==
  IF sessionId \in VisibleSessions(p) THEN CascadeTags(sessionId) ELSE tags

tasksAfterDelete(p, sessionId) ==
  IF sessionId \in VisibleSessions(p) THEN SetNullTasks(sessionId) ELSE tasks

deleteSession(p, sessionId) ==
  /\ sessions' = sessionsAfterDelete(p, sessionId)
  /\ tags' = tagsAfterDelete(p, sessionId)
  /\ tasks' = tasksAfterDelete(p, sessionId)
  /\ UNCHANGED <<nextId, nextTaskId, clock, endedOk, authUsers, userProfiles, calls>>

\* order('start_time', { ascending }): the orderings of the ids in S by
\* start_time; rows with equal start_time come in either order.
OrderedByStart(S, ascending) ==
  {q \in [1..Cardinality(S) -> S] :
     /\ \A i, j \in 1..Cardinality(S) : i # j => q[i] # q[j]
     /\ \A i, j \in 1..Cardinality(S) :
          i < j => IF ascending
                   THEN sessions[q[i]].start_time <= sessions[q[j]].start_time
                   ELSE sessions[q[i]].start_time >= sessions[q[j]].start_time}

OrderedByStartAsc(S) == OrderedByStart(S, TRUE)

\* order('start_time', { ascending: false })
OrderedByStartDesc(S) == OrderedByStart(S, FALSE)

\* options.limit || 10
DefaultRangeSize == 10

\* if (options?.limit), if (options?.offset), options.limit || 10: a number
\* left out and the number 0 are both falsy.
Truthy(n) == n # ABSENT /\ n # 0

\* limit(n) keeps the first n rows; range(from, to) keeps the rows at the
\* 0-based positions from..to, and replaces the limit.
Page(q, limit, offset) ==
  LET lo == IF Truthy(offset) THEN offset + 1 ELSE 1
      n == IF Truthy(offset) THEN (IF Truthy(limit) THEN limit ELSE DefaultRangeSize)
           ELSE IF Truthy(limit) THEN limit ELSE Len(q)
      hi == IF lo + n - 1 < Len(q) THEN lo + n - 1 ELSE Len(q)
  IN [i \in 1..(hi - lo + 1) |-> q[lo + i - 1]]

\* orderBy is left at its default, start_time.
SessionListOptions ==
  [hasRange : BOOLEAN, start_date : {1}, end_date : {1},
   ascending : BOOLEAN, limit : {ABSENT, 0, 1}, offset : {0, 1}]

\* select('*').eq('user_id', userId) [.gte/.lte('start_time', ..)]
\*   .order(..) [.limit(..)] [.range(..)]: the responses the call can return.
getUserSessionsResponses(p, userId, options) ==
  LET S == {s \in VisibleSessions(p) :
              /\ sessions[s].user_id = userId
              /\ options.hasRange =>
                   /\ sessions[s].start_time >= options.start_date
                   /\ sessions[s].start_time <= options.end_date}
  IN {Ok(Page(q, options.limit, options.offset)) :
        q \in OrderedByStart(S, options.ascending)}

getUserSessions(p, userId, options) ==
  /\ getUserSessionsResponses(p, userId, options) # {}
  /\ UNCHANGED vars

\* select('*').eq('user_id', userId).is('end_time', null)
\*   .order('start_time', { ascending: false }).limit(1).maybeSingle()
\* The set of responses the call can return.
getActiveSessionResponses(p, userId) ==
  LET S == {s \in VisibleSessions(p) :
              sessions[s].user_id = userId /\ sessions[s].end_time = NULL}
  IN IF S = {} THEN {Ok(<<>>)}
     ELSE {Ok(<<q[1]>>) : q \in OrderedByStartDesc(S)}

getActiveSession(p, userId) ==
  /\ getActiveSessionResponses(p, userId) # {}
  /\ UNCHANGED vars

-----------------------------------------------------------------------------
(* StudySessionService: tags *)

\* String.prototype.toLowerCase
toLowerCase(s) == [i \in 1..Len(s) |-> IF s[i] = "M" THEN "m" ELSE s[i]]

\* String.prototype.trim: drop the blanks at both ends
RECURSIVE trim(_)
trim(s) ==
  IF s = <<>> THEN s
  ELSE IF Head(s) = " " THEN trim(Tail(s))
  ELSE IF s[Len(s)] = " " THEN trim(SubSeq(s, 1, Len(s) - 1))
  ELSE s

\* tag.toLowerCase().trim()
NormalizeTag(tag) == trim(toLowerCase(tag))

\* tags.map((tag) => ({ session_id, tag: tag.toLowerCase().trim() }))
tagInserts(sessionId, tagList) ==
  [i \in 1..Len(tagList) |->
     [session_id |-> sessionId, tag |-> NormalizeTag(tagList[i])]]

\* UNIQUE(session_id, tag): the statement fails when two of its rows are equal
\* or one of them is stored already.
UniqueViolation(rows) ==
  \/ \E i, j \in 1..Len(rows) : i < j /\ rows[i] = rows[j]
  \/ \E i \in 1..Len(rows) : rows[i] \in tags

\* insert(tagInserts).select(): one INSERT statement, all rows or none
addSessionTagsResponse(p, sessionId, tagList) ==
  LET rows == tagInserts(sessionId, tagList)
  IN IF ~TagPolicy(p, sessionId) THEN Fail("42501")
     ELSE IF UniqueViolation(rows) THEN Fail("23505")
     ELSE Ok({rows[i] : i \in 1..Len(rows)})

\* study_session_tags after the call.
tagsAfterAdd(p, sessionId, tagList) ==
  IF addSessionTagsResponse(p, sessionId, tagList).success
  THEN tags \cup addSessionTagsResponse(p, sessionId, tagList).data
  ELSE tags

addSessionTags(p, sessionId, tagList) ==
  /\ tags' = tagsAfterAdd(p, sessionId, tagList)
  /\ UNCHANGED <<sessions, tasks, nextId, nextTaskId, clock, endedOk, authUsers, userProfiles, calls>>

\* select('*').eq('session_id', sessionId)
getSessionTagsResponse(p, sessionId) ==
  Ok({r \in VisibleTags(p) : r.session_id = sessionId})

getSessionTags(p, sessionId) ==
  /\ getSessionTagsResponse(p, sessionId).success
  /\ UNCHANGED vars

\* delete().eq('session_id', sessionId).eq('tag', tag.toLowerCase().trim())
removeSessionTagResponse(p, sessionId, tag) == Ok({})

\* The same DELETE comparing the stored tag with the tag as it was given.
tagsAfterRemoveAsGiven(p, sessionId, tag) ==
  tags \ {r \in VisibleTags(p) : r.session_id = sessionId /\ r.tag = tag}

\* study_session_tags after the call.
tagsAfterRemove(p, sessionId, tag) ==
  tags \ {r \in VisibleTags(p) :
            r.session_id = sessionId /\ r.tag = NormalizeTag(tag)}

removeSessionTag(p, sessionId, tag) ==
  /\ tags' = tagsAfterRemove(p, sessionId, tag)
  /\ UNCHANGED <<sessions, tasks, nextId, nextTaskId, clock, endedOk, authUsers, userProfiles, calls>>

\* The same call without .in('id', sessionIds) in its second select.
getSessionsByTagResponsesAnyId(p, userId, tag) ==
  LET tagData == {r \in VisibleTags(p) : r.tag = NormalizeTag(tag)}
      S == {s \in VisibleSessions(p) : sessions[s].user_id = userId}
  IN IF tagData = {} THEN {Ok(<<>>)}
     ELSE {Ok(q) : q \in OrderedByStartDesc(S)}

\* Two selects: the session ids of the visible tag rows with the tag, then the
\* visible sessions of userId among them, by start_time descending.
getSessionsByTagResponses(p, userId, tag) ==
  LET tagData == {r \in VisibleTags(p) : r.tag = NormalizeTag(tag)}
      sessionIds == {r.session_id : r \in tagData}
      S == {s \in VisibleSessions(p) :
              sessions[s].user_id = userId /\ s \in sessionIds}
  IN IF tagData = {} THEN {Ok(<<>>)}
     ELSE {Ok(q) : q \in OrderedByStartDesc(S)}

getSessionsByTag(p, userId, tag) ==
  /\ getSessionsByTagResponses(p, userId, tag) # {}
  /\ UNCHANGED vars

-----------------------------------------------------------------------------
(* Analytics: the views and SECURITY DEFINER functions of migration 003.   *)
(* A SECURITY DEFINER function runs with its owner's rights, and a view     *)
(* reads its table with the view owner's rights: the owner of the table is  *)
(* not subject to its row-level-security policies, so neither filters by    *)
(* the caller.                                                              *)

\* DATE(start_time), CURRENT_DATE: the day a timestamp falls on
Date(t) == Seconds(t) \div (24 * 60 * 60)

\* The same query without its WHERE end_time IS NOT NULL.
SessionsOfUser(tbl, userId) == {s \in DOMAIN tbl : tbl[s].user_id = userId}

\* FROM public.study_sessions WHERE user_id = .. AND end_time IS NOT NULL,
\* over the rows tbl of the table that the query reads
EndedSessions(tbl, userId) ==
  {s \in DOMAIN tbl : tbl[s].user_id = userId /\ tbl[s].end_time # NULL}

\* The LOOP of get_study_streak from check_date downwards
RECURSIVE StreakFrom(_, _, _)
StreakFrom(tbl, userId, check_date) ==
  IF \E s \in EndedSessions(tbl, userId) : Date(tbl[s].start_time) = check_date
  THEN 1 + StreakFrom(tbl, userId, check_date - 1)
  ELSE 0

\* A streak that a day without a session today does not break.
get_study_streak_lenient(tbl, p_user_id) ==
  IF StreakFrom(tbl, p_user_id, Date(clock)) = 0
  THEN StreakFrom(tbl, p_user_id, Date(clock) - 1)
  ELSE StreakFrom(tbl, p_user_id, Date(clock))

get_study_streak(tbl, p_user_id) == StreakFrom(tbl, p_user_id, Date(clock))

RECURSIVE SumDuration(_, _)
SumDuration(tbl, S) ==
  IF S = {} THEN 0
  ELSE LET s == CHOOSE x \in S : TRUE
       IN tbl[s].duration_minutes + SumDuration(tbl, S \ {s})

RECURSIVE SumMood(_, _)
SumMood(tbl, S) ==
  IF S = {} THEN 0
  ELSE LET s == CHOOSE x \in S : TRUE
       IN tbl[s].mood_rating + SumMood(tbl, S \ {s})

\* AVG(mood_rating) over the rows S: NULL rows are skipped, and the average of
\* no value is NULL.  The average is kept as <<sum, count>>.
AvgMood(tbl, S) ==
  LET rated == {s \in S : tbl[s].mood_rating # NULL}
  IN IF rated = {} THEN NULL ELSE <<SumMood(tbl, rated), Cardinality(rated)>>

\* The row of user_study_stats for userId (GROUP BY user_id over the ended
\* sessions): there is none when the user has no ended session.
user_study_stats(tbl, userId) ==
  [user_id |-> userId,
   total_sessions |-> Cardinality(EndedSessions(tbl, userId)),
   total_minutes_studied |-> SumDuration(tbl, EndedSessions(tbl, userId)),
   avg_mood_rating |-> AvgMood(tbl, EndedSessions(tbl, userId))]

\* The same view without its WHERE end_time IS NOT NULL: COUNT(*) counts the
\* active sessions too, SUM skips their NULL duration_minutes.
daily_study_summary_all(tbl, userId) ==
  {[user_id |-> userId,
    study_date |-> d,
    sessions_count |->
      Cardinality({s \in SessionsOfUser(tbl, userId) : Date(tbl[s].start_time) = d}),
    total_minutes |->
      SumDuration(tbl, {s \in EndedSessions(tbl, userId) :
                          Date(tbl[s].start_time) = d})] :
   d \in {Date(tbl[s].start_time) : s \in SessionsOfUser(tbl, userId)}}

\* The rows of daily_study_summary for userId: GROUP BY user_id, DATE(start_time)
daily_study_summary(tbl, userId) ==
  {[user_id |-> userId,
    study_date |-> d,
    sessions_count |->
      Cardinality({s \in EndedSessions(tbl, userId) : Date(tbl[s].start_time) = d}),
    total_minutes |->
      SumDuration(tbl, {s \in EndedSessions(tbl, userId) :
                          Date(tbl[s].start_time) = d})] :
   d \in {Date(tbl[s].start_time) : s \in EndedSessions(tbl, userId)}}

\* The same function with TRUNC(.., 2) in the place of ROUND(.., 2).
get_task_completion_rate_truncated(tbl, p_user_id) ==
  LET total_tasks == Cardinality({k \in DOMAIN tbl : tbl[k].user_id = p_user_id})
      completed_tasks ==
        Cardinality({k \in DOMAIN tbl :
                       tbl[k].user_id = p_user_id /\ tbl[k].is_completed = TRUE})
  IN IF total_tasks = 0 THEN 0
     ELSE (completed_tasks * 10000) \div total_tasks

\* ROUND((completed_tasks::NUMERIC / total_tasks::NUMERIC) * 100, 2), in
\* hundredths of a percent: round(x, 2) rounds ties away from zero.
get_task_completion_rate(tbl, p_user_id) ==
  LET total_tasks == Cardinality({k \in DOMAIN tbl : tbl[k].user_id = p_user_id})
      completed_tasks ==
        Cardinality({k \in DOMAIN tbl :
                       tbl[k].user_id = p_user_id /\ tbl[k].is_completed = TRUE})
  IN IF total_tasks = 0 THEN 0
     ELSE (2 * completed_tasks * 10000 + total_tasks) \div (2 * total_tasks)

\* The rows of study_sessions that a query made for principal p through a
\* view or a SECURITY DEFINER function reads: all of them.
DefinerSessions(p) == sessions

\* The rows of tasks that get_task_completion_rate reads for principal p.
DefinerTasks(p) == tasks

\* rpc('get_study_streak', { p_user_id: userId }); data || 0
getStudyStreakResponse(p, userId) ==
  Ok(get_study_streak(DefinerSessions(p), userId))

getStudyStreak(p, userId) ==
  /\ getStudyStreakResponse(p, userId).success
  /\ UNCHANGED vars

\* from('user_study_stats').select('*').eq('user_id', userId).single()
getUserStatsResponse(p, userId) ==
  IF EndedSessions(DefinerSessions(p), userId) = {} THEN Fail("PGRST116")
  ELSE Ok(user_study_stats(DefinerSessions(p), userId))

getUserStats(p, userId) ==
  /\ getUserStatsResponse(p, userId).success \in BOOLEAN
  /\ UNCHANGED vars

\* from('daily_study_summary').select('*').eq('user_id', userId)
\*   .order('study_date', { ascending: false }), no dateRange; data holds the
\* rows, which study_date orders
getDailySummaryResponse(p, userId) ==
  Ok(daily_study_summary(DefinerSessions(p), userId))

getDailySummary(p, userId) ==
  /\ getDailySummaryResponse(p, userId).success
  /\ UNCHANGED vars

\* rpc('get_task_completion_rate', { p_user_id: userId }); data || 0
getTaskCompletionRateResponse(p, userId) ==
  Ok(get_task_completion_rate(DefinerTasks(p), userId))

getTaskCompletionRate(p, userId) ==
  /\ getTaskCompletionRateResponse(p, userId).success
  /\ UNCHANGED vars

-----------------------------------------------------------------------------
(* TaskService *)

\* TaskInsert as the table stores it: is_completed DEFAULT FALSE
InsertedTask(taskData) ==
  [user_id |-> taskData.user_id,
   session_id |-> IF taskData.session_id = ABSENT THEN NULL ELSE taskData.session_id,
   is_completed |-> FALSE,
   completed_at |-> NULL,
   order_index |-> 0]

TaskInserts == [user_id : Users, session_id : {ABSENT} \cup SessionIds]

\* insert(taskData).select().single(): "Users can insert own tasks" WITH CHECK
\* (auth.uid() = user_id); session_id REFERENCES study_sessions(id)
createTaskResponse(p, taskData) ==
  LET new == InsertedTask(taskData)
  IN IF p # new.user_id THEN Fail("42501")
     ELSE IF new.session_id # NULL /\ new.session_id \notin DOMAIN sessions
          THEN Fail("23503")
     ELSE Ok(<<nextTaskId>>)

createTask(p, taskData) ==
  /\ nextTaskId <= MaxTasks
  /\ IF createTaskResponse(p, taskData).success
     THEN /\ tasks' = tasks @@ (nextTaskId :> InsertedTask(taskData))
          /\ nextTaskId' = nextTaskId + 1
     ELSE UNCHANGED <<tasks, nextTaskId>>
  /\ UNCHANGED <<sessions, tags, nextId, clock, endedOk, authUsers, userProfiles, calls>>

\* TaskUpdate: { is_completed: boolean }
TaskUpdates == [is_completed : BOOLEAN]

\* update(updates).eq('id', taskId).select().single()
updateTaskResponse(p, taskId, updates) ==
  IF taskId \in VisibleTasks(p) THEN Ok(<<taskId>>) ELSE Fail("PGRST116")

\* tasks after the call.
tasksAfterUpdate(p, taskId, updates) ==
  IF updateTaskResponse(p, taskId, updates).success
  THEN [tasks EXCEPT ![taskId] =
          set_task_completed_at(@, [@ EXCEPT !.is_completed = updates.is_completed])]
  ELSE tasks

updateTask(p, taskId, updates) ==
  /\ tasks' = tasksAfterUpdate(p, taskId, updates)
  /\ UNCHANGED <<sessions, tags, nextId, nextTaskId, clock, endedOk, authUsers, userProfiles, calls>>

-----------------------------------------------------------------------------
(* Store calls that fail.  An awaited store call resolves with data ("ok"), *)
(* resolves with an error value ("error"), or rejects ("throw").  A call    *)
(* that fails changes no row.                                               *)

StoreResults == {"ok", "error", "throw"}

\* A method whose rejected store call is not caught: no ApiResponse is returned.
Thrown == [thrown |-> TRUE]

\* A method without try/catch around its store call.
Propagated(result, response) ==
  IF result = "throw" THEN Thrown
  ELSE IF result = "error" THEN Fail("store_error")
  ELSE response

\* try { const { data, error } = await <call>; if (error) return { data: null,
\* error: {..}, success: false }; return <response> } catch (error) { return
\* { data: null, error: { message }, success: false } }
Handled(result, response) ==
  IF result = "throw" THEN Fail("exception")
  ELSE IF result = "error" THEN Fail("store_error")
  ELSE response

\* createSession when its insert ends with the given store result.
createSessionCallResponse(p, sessionData, result) ==
  Handled(result, createSessionResponse(p, sessionData))

createSessionCall(p, sessionData, result) ==
  IF result = "ok" THEN createSession(p, sessionData)
  ELSE nextId <= MaxSessions /\ UNCHANGED vars

\* taskUpdates of reorderTasks: one { id, order_index } per task, each task
\* named once.
ReorderLists ==
  {l \in UNION {[1..n -> [id : TaskIds, order_index : {0, 1}]] : n \in 1..MaxTasks} :
     \A i, j \in 1..Len(l) : i # j => l[i].id # l[j].id}

\* await Promise.all(updates): the { error } that an update resolves with is
\* not read; only a rejected update reaches the catch.
reorderTasksResponse(p, taskUpdates, results) ==
  IF \E i \in 1..Len(taskUpdates) : results[i] = "throw"
  THEN Fail("exception")
  ELSE Ok(<<>>)

\* tasks after the call: update({ order_index }).eq('id', id) for each entry
\* whose call did not fail, on the rows the caller may update.
tasksAfterReorder(p, taskUpdates, results) ==
  [k \in DOMAIN tasks |->
     IF k \in VisibleTasks(p)
        /\ \E i \in 1..Len(taskUpdates) : taskUpdates[i].id = k /\ results[i] = "ok"
     THEN LET i == CHOOSE x \in 1..Len(taskUpdates) : taskUpdates[x].id = k
          IN set_task_completed_at(tasks[k],
               [tasks[k] EXCEPT !.order_index = taskUpdates[i].order_index])
     ELSE tasks[k]]

reorderTasks(p, taskUpdates, results) ==
  /\ results \in [1..Len(taskUpdates) -> StoreResults]
  /\ tasks' = tasksAfterReorder(p, taskUpdates, results)
  /\ UNCHANGED <<sessions, tags, nextId, nextTaskId, clock, endedOk, authUsers, userProfiles, calls>>

\* The account that signUp may create; the principals of Users have signed up
\* already.
NewAccounts == {"C"}

\* signUp for an address that has no account: supabase.auth.signUp, then the
\* insert into user_profiles, whose error is logged and not returned.
signUpResponse(email, authResult, profileResult) ==
  IF authResult = "throw" THEN Fail("exception")
  ELSE IF authResult = "error" THEN Fail("AuthError")
  ELSE IF profileResult = "throw" THEN Fail("exception")
  ELSE Ok(<<email>>)

signUp(email, authResult, profileResult) ==
  /\ email \notin authUsers
  /\ authUsers' = IF authResult = "ok" THEN authUsers \cup {email} ELSE authUsers
  /\ userProfiles' = IF authResult = "ok" /\ profileResult = "ok"
                     THEN userProfiles \cup {email} ELSE userProfiles
  /\ UNCHANGED <<sessions, tags, tasks, nextId, nextTaskId, clock, endedOk, calls>>

-----------------------------------------------------------------------------
(* Calls in flight.  A method that awaits the store after computing        *)
(* something of its own takes two steps, and other calls may take theirs    *)
(* in between.  calls[c].pc is "update" while call c still has its UPDATE   *)
(* to send and "done" once it has returned; seq numbers the UPDATE          *)
(* statements in the order the store applied them.                          *)

Applied == Cardinality({c \in DOMAIN calls : calls[c].seq > 0})

\* endSession up to `await this.updateSession(sessionId, updates)`: updates
\* holds the caller's new Date() of this moment.
endSessionStart(p, sessionId, endData) ==
  /\ Len(calls) < MaxCalls
  /\ calls' = Append(calls, [method |-> "endSession", p |-> p, id |-> sessionId,
                             updates |-> EndUpdates(endData), pc |-> "update",
                             success |-> FALSE, seq |-> 0])
  /\ UNCHANGED <<sessions, tags, tasks, nextId, nextTaskId, clock, endedOk, authUsers, userProfiles>>

\* updateSession(sessionId, updates) of call c reaches the store: one UPDATE
\* statement, with its triggers and checks.
endSessionUpdate(c) ==
  /\ c \in DOMAIN calls
  /\ calls[c].method = "endSession" /\ calls[c].pc = "update"
  /\ LET k == calls[c]
         ok == updateSessionResponse(k.p, k.id, k.updates).success
     IN /\ sessions' = sessionsAfterUpdate(k.p, k.id, k.updates)
        /\ endedOk' = IF ok
                      THEN [s \in DOMAIN endedOk \cup {k.id} |->
                              IF s = k.id
                              THEN [endData |-> [mood_rating |-> k.updates.mood_rating],
                                    row |-> UpdatedRow(k.id, k.updates)]
                              ELSE endedOk[s]]
                      ELSE endedOk
        /\ calls' = [calls EXCEPT ![c] = [k EXCEPT !.pc = "done", !.success = ok,
                                                   !.seq = Applied + 1]]
  /\ UNCHANGED <<tags, tasks, nextId, nextTaskId, clock, authUsers, userProfiles>>

\* toggleTaskCompletion up to its second await:
\* select('is_completed').eq('id', taskId).single(); no visible row is
\* PGRST116 and the method returns.
toggleTaskCompletionSelect(p, taskId) ==
  /\ Len(calls) < MaxCalls
  /\ calls' = Append(calls,
       IF taskId \in VisibleTasks(p)
       THEN [method |-> "toggleTaskCompletion", p |-> p, id |-> taskId,
             currentTask |-> [is_completed |-> tasks[taskId].is_completed],
             pc |-> "update", success |-> FALSE, seq |-> 0]
       ELSE [method |-> "toggleTaskCompletion", p |-> p, id |-> taskId,
             currentTask |-> NULL, pc |-> "done", success |-> FALSE, seq |-> 0])
  /\ UNCHANGED <<sessions, tags, tasks, nextId, nextTaskId, clock, endedOk, authUsers, userProfiles>>

\* update({ is_completed: !currentTask.is_completed }).eq('id', taskId)
\*   .select().single() of call c reaches the store.
toggleTaskCompletionUpdate(c) ==
  /\ c \in DOMAIN calls
  /\ calls[c].method = "toggleTaskCompletion" /\ calls[c].pc = "update"
  /\ LET k == calls[c]
         updates == [is_completed |-> ~k.currentTask.is_completed]
     IN /\ tasks' = tasksAfterUpdate(k.p, k.id, updates)
        /\ calls' = [calls EXCEPT ![c] =
                       [k EXCEPT !.pc = "done",
                                 !.success = updateTaskResponse(k.p, k.id, updates).success,
                                 !.seq = Applied + 1]]
  /\ UNCHANGED <<sessions, tags, nextId, nextTaskId, clock, endedOk, authUsers, userProfiles>>

-----------------------------------------------------------------------------
(* Specifications *)

NextLifecycle ==
  \/ Tick
  \/ \E p \in Users, d \in SessionInserts : createSession(p, d)
  \/ \E p \in Users, s \in SessionIds : getSession(p, s)
  \/ \E p \in Users, s \in SessionIds, u \in SessionUpdates : updateSession(p, s, u)
  \/ \E p \in Users, s \in SessionIds : deleteSession(p, s)
  \/ \E p, u \in Users : getActiveSession(p, u)
  \/ \E p, u \in Users, o \in SessionListOptions : getUserSessions(p, u, o)

NextSessions ==
  \/ NextLifecycle
  \/ \E p \in Users, s \in SessionIds, e \in EndDatas : endSession(p, s, e)

NextTags ==
  \/ \E p \in Users, s \in SessionIds, l \in TagLists : addSessionTags(p, s, l)
  \/ \E p \in Users, s \in SessionIds : getSessionTags(p, s)
  \/ \E p \in Users, s \in SessionIds, t \in RawTags : removeSessionTag(p, s, t)
  \/ \E p, u \in Users, t \in RawTags : getSessionsByTag(p, u, t)

NextAnalytics ==
  \/ \E p, u \in Users : getStudyStreak(p, u)
  \/ \E p, u \in Users : getUserStats(p, u)
  \/ \E p, u \in Users : getDailySummary(p, u)
  \/ \E p, u \in Users : getTaskCompletionRate(p, u)

NextTasks ==
  \/ \E p \in Users, d \in TaskInserts : createTask(p, d)
  \/ \E p \in Users, k \in TaskIds, u \in TaskUpdates : updateTask(p, k, u)

\* Sessions and their tags.
Next == NextSessions \/ NextTags

Spec == Init /\ [][Next]_vars

\* The session lifecycle alone: no tag is ever added.
SpecSessions == Init /\ [][NextSessions]_vars

\* The session lifecycle with the history of the successful endSession calls.
NextHistory ==
  \/ NextLifecycle
  \/ \E p \in Users, s \in SessionIds, e \in EndDatas : endSessionLogged(p, s, e)

SpecHistory == Init /\ [][NextHistory]_vars

\* Sessions started and ended, tasks, and the analytics reads over them.
NextStats ==
  \/ Tick
  \/ \E p \in Users, d \in SessionInserts : createSession(p, d)
  \/ \E p \in Users, s \in SessionIds, e \in EndDatas : endSession(p, s, e)
  \/ NextTasks
  \/ NextAnalytics

SpecAnalytics == Init /\ [][NextStats]_vars

\* Sessions created and deleted, and their tags.
NextTagIndex ==
  \/ Tick
  \/ \E p \in Users, d \in SessionInserts : createSession(p, d)
  \/ \E p \in Users, s \in SessionIds : deleteSession(p, s)
  \/ NextTags

SpecTags == Init /\ [][NextTagIndex]_vars

\* Sessions with their tags and tasks, created and deleted.
NextCascade ==
  \/ \E p \in Users, d \in SessionInserts : createSession(p, d)
  \/ \E p \in Users, s \in SessionIds : deleteSession(p, s)
  \/ \E p \in Users, s \in SessionIds, l \in TagLists : addSessionTags(p, s, l)
  \/ NextTasks

SpecCascade == Init /\ [][NextCascade]_vars

\* Calls whose store calls may fail.
NextFaults ==
  \/ \E p \in Users, d \in SessionInserts, f \in StoreResults :
       createSessionCall(p, d, f)
  \/ \E p \in Users, d \in TaskInserts : createTask(p, d)
  \/ \E p \in Users, l \in ReorderLists :
       \E fs \in [1..Len(l) -> StoreResults] : reorderTasks(p, l, fs)
  \/ \E e \in NewAccounts, f, g \in StoreResults : signUp(e, f, g)

SpecFaults == Init /\ [][NextFaults]_vars

\* The clock ticks of one day.
DayTicks == (24 * 60 * 60) \div Seconds(1)

\* The rows that createSession stores for a session started on one of the
\* days 0..MaxDay, left active or ended one tick later.
StreakRows ==
  {calculate_session_duration(InsertedRow(
     [user_id |-> u, start_time |-> d * DayTicks,
      end_time |-> IF ended THEN d * DayTicks + 1 ELSE ABSENT,
      mood_rating |-> ABSENT])) :
   u \in Users, d \in 0..MaxDay, ended \in BOOLEAN}

\* get_study_streak over stored sessions of several days: the store holds up
\* to MaxStreakSessions rows of StreakRows, on any day up to MaxDay.
InitStreak ==
  /\ \E n \in 0..MaxStreakSessions :
       /\ sessions \in [1..n -> {r \in StreakRows : RowChecks(r)}]
       /\ nextId = n + 1
  /\ tags = {}
  /\ tasks = <<>>
  /\ nextTaskId = 1
  /\ clock \in {d * DayTicks + 2 : d \in 0..MaxDay}
  /\ endedOk = <<>>
  /\ authUsers = Users
  /\ userProfiles = Users
  /\ calls = <<>>

\* A day passes.
TickDay ==
  /\ Date(clock) < MaxDay
  /\ clock' = clock + DayTicks
  /\ UNCHANGED <<sessions, tags, tasks, nextId, nextTaskId, endedOk, authUsers, userProfiles, calls>>

NextStreak ==
  \/ TickDay
  \/ \E p \in Users, s \in SessionIds, e \in EndDatas : endSession(p, s, e)
  \/ \E p, u \in Users : getStudyStreak(p, u)

SpecStreak == InitStreak /\ [][NextStreak]_vars

\* The task rows of an owner, not completed or completed at time 0.
RateRows ==
  {[user_id |-> u, session_id |-> NULL, is_completed |-> c,
    completed_at |-> IF c THEN 0 ELSE NULL, order_index |-> 0] :
   u \in Users, c \in BOOLEAN}

\* get_task_completion_rate over stored tasks: the store holds up to
\* MaxRateTasks task rows.
InitRate ==
  /\ sessions = <<>>
  /\ tags = {}
  /\ \E n \in 0..MaxRateTasks :
       /\ tasks \in [1..n -> RateRows]
       /\ nextTaskId = n + 1
  /\ nextId = 1
  /\ clock = 0
  /\ endedOk = <<>>
  /\ authUsers = Users
  /\ userProfiles = Users
  /\ calls = <<>>

NextRate ==
  \/ Tick
  \/ NextTasks
  \/ \E p, u \in Users : getTaskCompletionRate(p, u)

SpecRate == InitRate /\ [][NextRate]_vars

\* Sessions started, and endSession calls that overlap: each takes its
\* timestamp, and the UPDATE statements reach the store in any order.
NextEndRace ==
  \/ Tick
  \/ \E p \in Users, d \in SessionInserts : createSession(p, d)
  \/ \E p \in Users, s \in SessionIds, e \in EndDatas : endSessionStart(p, s, e)
  \/ \E c \in 1..MaxCalls : endSessionUpdate(c)

SpecEndRace == Init /\ [][NextEndRace]_vars

\* Tasks created, and toggleTaskCompletion calls that overlap.
NextToggle ==
  \/ \E p \in Users, d \in TaskInserts : createTask(p, d)
  \/ \E p \in Users, k \in TaskIds : toggleTaskCompletionSelect(p, k)
  \/ \E c \in 1..MaxCalls : toggleTaskCompletionUpdate(c)

SpecToggle == Init /\ [][NextToggle]_vars

\* Tasks created, updated and toggled while time passes.
NextTaskCalls ==
  \/ Tick
  \/ \E p \in Users, k \in TaskIds, u \in TaskUpdates : updateTask(p, k, u)
  \/ NextToggle

SpecTaskCalls == Init /\ [][NextTaskCalls]_vars

\* The two aggregate views read over sessions of several days, some of them
\* ended while the days pass.
NextViews ==
  \/ TickDay
  \/ \E p \in Users, s \in SessionIds, e \in EndDatas : endSession(p, s, e)
  \/ \E p, u \in Users : getUserStats(p, u)
  \/ \E p, u \in Users : getDailySummary(p, u)

SpecViews == InitStreak /\ [][NextViews]_vars

-----------------------------------------------------------------------------
(* Claims *)

\* The elapsed seconds of an ended session row.
ElapsedSeconds(row) == Seconds(row.end_time) - Seconds(row.start_time)

C2_DurationIffEnded ==
  \A s \in DOMAIN sessions :
    (sessions[s].duration_minutes # NULL) <=> (sessions[s].end_time # NULL)

\* C3, as stated: no step of any service operation takes a stored session
\* from end_time present to end_time absent.
C3_LifecycleOneWay ==
  [][\A s \in DOMAIN sessions :
       (sessions[s].end_time # NULL /\ s \in DOMAIN sessions')
         => sessions'[s].end_time # NULL]_vars

\* The rows of the sessions table tbl, and of the tag table tg over it, that
\* principal a owns.
OwnedSessions(a, tbl) ==
  [s \in {x \in DOMAIN tbl : tbl[x].user_id = a} |-> tbl[s]]

OwnedTagRows(a, tbl, tg) ==
  {r \in tg : r.session_id \in DOMAIN tbl /\ tbl[r.session_id].user_id = a}

\* A call that leaves the tables tbl and tg leaves the rows of a as they were.
KeepsRowsOf(a, tbl, tg) ==
  /\ OwnedSessions(a, tbl) = OwnedSessions(a, sessions)
  /\ OwnedTagRows(a, tbl, tg) = OwnedTagRows(a, sessions, tags)

\* No call of b changes a session or tag row of another principal a (the
\* reads change no row at all).
C4_Frame ==
  \A a \in Users : \A b \in Users \ {a} : \A s \in SessionIds :
    /\ \A u \in SessionUpdates :
         KeepsRowsOf(a, sessionsAfterUpdate(b, s, u), tags)
    /\ \A e \in EndDatas :
         KeepsRowsOf(a, sessionsAfterUpdate(b, s, EndUpdates(e)), tags)
    /\ KeepsRowsOf(a, sessionsAfterDelete(b, s), tagsAfterDelete(b, s))
    /\ \A l \in TagLists : KeepsRowsOf(a, sessions, tagsAfterAdd(b, s, l))
    /\ \A x \in RawTags : KeepsRowsOf(a, sessions, tagsAfterRemove(b, s, x))

\* The response r returns a session row of a.
ReturnsSessionOf(a, r) ==
  r.success /\ \E i \in 1..Len(r.data) :
    r.data[i] \in DOMAIN sessions /\ sessions[r.data[i]].user_id = a

\* The response r returns a tag row of a session of a.
ReturnsTagOf(a, r) ==
  r.success /\ \E x \in r.data :
    x.session_id \in DOMAIN sessions /\ sessions[x.session_id].user_id = a

\* No response to a call of b returns a row of another principal a.
C4_NoLeak ==
  \A a \in Users : \A b \in Users \ {a} :
    /\ \A s \in SessionIds :
         /\ ~ReturnsSessionOf(a, getSessionResponse(b, s))
         /\ \A u \in SessionUpdates : ~ReturnsSessionOf(a, updateSessionResponse(b, s, u))
         /\ \A e \in EndDatas : ~ReturnsSessionOf(a, endSessionResponse(b, s, e))
         /\ ~ReturnsSessionOf(a, deleteSessionResponse(b, s))
         /\ \A l \in TagLists : ~ReturnsTagOf(a, addSessionTagsResponse(b, s, l))
         /\ ~ReturnsTagOf(a, getSessionTagsResponse(b, s))
    /\ \A u \in Users :
         /\ \A o \in SessionListOptions :
              \A r \in getUserSessionsResponses(b, u, o) : ~ReturnsSessionOf(a, r)
         /\ \A r \in getActiveSessionResponses(b, u) : ~ReturnsSessionOf(a, r)
         /\ \A x \in RawTags :
              \A r \in getSessionsByTagResponses(b, u, x) : ~ReturnsSessionOf(a, r)

\* C4: for distinct principals a and b, no session or tag operation issued by
\* b changes a session or tag row owned by a, and none returns such a row, in
\* any reachable state.
C4_Isolation == C4_NoLeak /\ C4_Frame

\* C4 witness: A owns an ended session with a tag while B owns a session too,
\* and B's read of A's session fails and B's list of its tags is empty.
C4_Witness ==
  \E s, s2 \in DOMAIN sessions :
    /\ sessions[s].user_id = "A" /\ sessions[s].end_time # NULL
    /\ sessions[s2].user_id = "B"
    /\ \E r \in tags : r.session_id = s
    /\ ~getSessionResponse("B", s).success
    /\ getSessionTagsResponse("B", s).data = {}

\* C5, as stated: getSession, updateSession, endSession and deleteSession on a
\* session id that does not exist or is not owned by the caller return
\* success = false with a non-null error.
C5_MissingSessionFails ==
  \A p \in Users, s \in SessionIds :
    s \notin VisibleSessions(p) =>
      LET Failed(r) == r.success = FALSE /\ r.error # "null"
      IN /\ Failed(getSessionResponse(p, s))
         /\ \A u \in SessionUpdates : Failed(updateSessionResponse(p, s, u))
         /\ \A e \in EndDatas : Failed(endSessionResponse(p, s, e))
         /\ Failed(deleteSessionResponse(p, s))

\* The table tbl without the rows of principal a.
WithoutRowsOf(a, tbl) == [k \in {x \in DOMAIN tbl : tbl[x].user_id # a} |-> tbl[k]]

\* C6, as stated: what b obtains from getStudyStreak(a), getTaskCompletionRate(a),
\* getUserStats(a) and getDailySummary(a) is what b would obtain were a's
\* sessions and tasks not stored: the four reads do not depend on a's rows.
C6_AnalyticsGated ==
  \A a \in Users : \A b \in Users \ {a} :
    /\ getStudyStreakResponse(b, a).data
         = get_study_streak(WithoutRowsOf(a, sessions), a)
    /\ getTaskCompletionRateResponse(b, a).data
         = get_task_completion_rate(WithoutRowsOf(a, tasks), a)
    /\ getUserStatsResponse(b, a).success
         = (EndedSessions(WithoutRowsOf(a, sessions), a) # {})
    /\ getDailySummaryResponse(b, a).data
         = daily_study_summary(WithoutRowsOf(a, sessions), a)

\* The sessions of owner u with end_time absent.
ActiveSessions(u) ==
  {s \in DOMAIN sessions : sessions[s].user_id = u /\ sessions[s].end_time = NULL}

\* C7, as stated: once endSession(S) has returned success for a session S of
\* owner U, no getActiveSession(U) returns S; and an endSession(S) that returns
\* success when S is U's only session with end_time absent has
\* getActiveSession(U) return S before it and none after it.
C7_EndedNeverActive ==
  [][/\ \A s \in DOMAIN endedOk' \cap DOMAIN sessions' :
          Ok(<<s>>) \notin getActiveSessionResponses(sessions[s].user_id,
                                                    sessions[s].user_id)'
     /\ \A p \in Users, s \in SessionIds, e \in EndDatas :
          (/\ endSessionLogged(p, s, e)
           /\ endSessionResponse(p, s, e).success
           /\ ActiveSessions(p) = {s})
            => /\ getActiveSessionResponses(p, p) = {Ok(<<s>>)}
               /\ getActiveSessionResponses(p, p)' = {Ok(<<>>)}]_vars

\* C8: getActiveSession(U), called by U, returns none exactly when U has no
\* session with end_time absent, and otherwise a session of U with end_time
\* absent whose start_time is the maximum among those.
C8_ActiveIsLatest ==
  \A u \in Users :
    /\ getActiveSessionResponses(u, u) # {}
    /\ \A r \in getActiveSessionResponses(u, u) :
         /\ r.success
         /\ (r.data = <<>>) <=> (ActiveSessions(u) = {})
         /\ r.data # <<>> =>
              /\ r.data[1] \in ActiveSessions(u)
              /\ \A s \in ActiveSessions(u) :
                   sessions[s].start_time <= sessions[r.data[1]].start_time

\* C8 witness: an owner with two sessions with end_time absent that started at
\* different times, whose getActiveSession returns the later one only; and
\* another owner with none, whose getActiveSession returns none.
C8_Witness ==
  \E u, v \in Users : \E s, s2 \in ActiveSessions(u) :
    /\ sessions[s].start_time < sessions[s2].start_time
    /\ getActiveSessionResponses(u, u) = {Ok(<<s2>>)}
    /\ ActiveSessions(v) = {}
    /\ getActiveSessionResponses(v, v) = {Ok(<<>>)}

\* C9, as stated: an endSession(S, data) that returns success, called after the
\* clock has advanced on a session that an earlier endSession(S, data) with the
\* same data left as it still is, leaves the end_time and duration_minutes
\* that the earlier call left.
C9_EndSessionIdempotent ==
  [][\A p \in Users, s \in SessionIds, e \in EndDatas :
       (/\ endSessionLogged(p, s, e)
        /\ endSessionResponse(p, s, e).success
        /\ s \in DOMAIN endedOk
        /\ endedOk[s].endData = e
        /\ endedOk[s].row = sessions[s]
        /\ endedOk[s].row.end_time < clock)
         => /\ sessions'[s].end_time = endedOk[s].row.end_time
            /\ sessions'[s].duration_minutes = endedOk[s].row.duration_minutes]_vars

\* The tags that getSessionTags yields for session s from the tag table tg.
TagsOf(s, tg) == {r.tag : r \in {x \in tg : x.session_id = s}}

\* C10, as stated: an addSessionTags by the owner of S whose input holds two
\* entries that normalize to the same string, or an entry that normalizes to
\* a tag stored for S already, returns success, and afterwards the tags of S
\* are the ones stored before together with the normalized input, each once.
C10_AddTagsDedups ==
  \A s \in DOMAIN sessions : \A l \in TagLists :
    LET p == sessions[s].user_id
        rows == tagInserts(s, l)
    IN (\/ \E i, j \in 1..Len(l) : i < j /\ rows[i] = rows[j]
        \/ \E i \in 1..Len(l) : rows[i].tag \in TagsOf(s, tags))
         => /\ addSessionTagsResponse(p, s, l).success
            /\ TagsOf(s, tagsAfterAdd(p, s, l))
                 = TagsOf(s, tags) \cup {rows[i].tag : i \in 1..Len(l)}

\* C11, as stated: every stored tag row has a non-empty tag.
C11_NoEmptyTag == \A r \in tags : r.tag # <<>>

\* C12: after a deleteSession(S) by the owner of a stored session S, S is
\* gone, no tag row references S, every task is still stored, the tasks that
\* referenced S have session_id NULL and are otherwise as they were, and the
\* other tasks are as they were.
C12_DeleteCascade ==
  \A s \in DOMAIN sessions :
    LET p == sessions[s].user_id
        after == tasksAfterDelete(p, s)
    IN /\ deleteSessionResponse(p, s).success
       /\ s \notin DOMAIN sessionsAfterDelete(p, s)
       /\ \A r \in tagsAfterDelete(p, s) : r.session_id # s
       /\ DOMAIN after = DOMAIN tasks
       /\ \A k \in DOMAIN tasks :
            after[k] = IF tasks[k].session_id = s
                       THEN [tasks[k] EXCEPT !.session_id = NULL]
                       ELSE tasks[k]

\* C12 witness: a stored session with a tag and a completed task that
\* references it, whose deletion by its owner leaves no tag and leaves the task
\* with session_id NULL.
C12_Witness ==
  \E s \in DOMAIN sessions : \E k \in DOMAIN tasks :
    LET p == sessions[s].user_id
    IN /\ tasks[k].session_id = s
       /\ tasks[k].is_completed
       /\ \E r \in tags : r.session_id = s
       /\ tagsAfterDelete(p, s) = {}
       /\ tasksAfterDelete(p, s)[k].session_id = NULL

\* C13: for every owner u with at least one stored session with end_time
\* present, getUserStats(u) called by u succeeds and its total_sessions is the
\* number of u's stored sessions with end_time present.
C13_TotalSessionsCountsEnded ==
  \A u \in Users :
    LET ended == {s \in DOMAIN sessions :
                    sessions[s].user_id = u /\ sessions[s].end_time # NULL}
    IN ended # {} =>
         /\ getUserStatsResponse(u, u).success
         /\ getUserStatsResponse(u, u).data.total_sessions = Cardinality(ended)

\* C13 witness: an owner with one ended and one active session, whose
\* getUserStats reports total_sessions = 1.
C13_Witness ==
  \E u \in Users : \E s, s2 \in DOMAIN sessions :
    /\ sessions[s].user_id = u /\ sessions[s].end_time # NULL
    /\ sessions[s2].user_id = u /\ sessions[s2].end_time = NULL
    /\ getUserStatsResponse(u, u).success
    /\ getUserStatsResponse(u, u).data.total_sessions = 1

\* C14, as stated: for an owner u with no stored session with end_time present,
\* getUserStats(u) called by u returns success, with its average absent.
C14_NoDataIsNotAnError ==
  \A u \in Users :
    (\A s \in DOMAIN sessions :
       sessions[s].user_id = u => sessions[s].end_time = NULL)
      => /\ getUserStatsResponse(u, u).success
         /\ getUserStatsResponse(u, u).data.avg_mood_rating = NULL

\* Owner u has a stored session with end_time present that started on day d.
StudiedOn(u, d) ==
  \E s \in DOMAIN sessions :
    /\ sessions[s].user_id = u
    /\ sessions[s].end_time # NULL
    /\ Seconds(sessions[s].start_time) \div (24 * 60 * 60) = d

\* The day the clock is in.
Today == Seconds(clock) \div (24 * 60 * 60)

\* C15: getStudyStreak(u), called by u, succeeds with the largest k such that u
\* has an ended session started on each of the days today, .., today - (k - 1):
\* each of those k days has one and day today - k has none.
C15_StreakIsConsecutiveDays ==
  \A u \in Users :
    LET r == getStudyStreakResponse(u, u)
    IN /\ r.success
       /\ r.data >= 0
       /\ \A i \in 0..(r.data - 1) : StudiedOn(u, Today - i)
       /\ ~StudiedOn(u, Today - r.data)

\* C15 witness: an owner with ended sessions on days D, D-1 and D-2 and none
\* on D-3, whose streak is 3.
C15_Witness ==
  \E u \in Users :
    /\ Today = 3
    /\ StudiedOn(u, 3) /\ StudiedOn(u, 2) /\ StudiedOn(u, 1) /\ ~StudiedOn(u, 0)
    /\ getStudyStreakResponse(u, u).data = 3

\* The number of stored tasks of owner u, and of the completed ones.
TotalTasks(u) == Cardinality({k \in DOMAIN tasks : tasks[k].user_id = u})

CompletedTasks(u) ==
  Cardinality({k \in DOMAIN tasks : tasks[k].user_id = u /\ tasks[k].is_completed})

\* C16: getTaskCompletionRate(u), called by u, succeeds; its result h, in
\* hundredths of a percent, is 0 when u has no task, and otherwise lies within
\* half a hundredth of (completed / total) * 100, that is, it is that value
\* rounded to 2 decimal places; it lies in 0..10000.
C16_CompletionRateRounded ==
  \A u \in Users :
    LET r == getTaskCompletionRateResponse(u, u)
        h == r.data
        d == h * TotalTasks(u) - 10000 * CompletedTasks(u)
    IN /\ r.success
       /\ h >= 0 /\ h <= 10000
       /\ TotalTasks(u) = 0 => h = 0
       /\ 2 * d <= TotalTasks(u) /\ -2 * d <= TotalTasks(u)

\* C16 witness: an owner with 3 tasks, 1 of them completed, whose rate is 33.33.
C16_Witness ==
  \E u \in Users :
    /\ TotalTasks(u) = 3
    /\ CompletedTasks(u) = 1
    /\ getTaskCompletionRateResponse(u, u).data = 3333

\* The orderings of the set S of stored sessions by start_time descending.
DescOrderings(S) ==
  {q \in [1..Cardinality(S) -> S] :
     /\ \A i, j \in 1..Cardinality(S) : i # j => q[i] # q[j]
     /\ \A i, j \in 1..Cardinality(S) :
          i < j => sessions[q[i]].start_time >= sessions[q[j]].start_time}

\* The elements of q at the 0-based positions O..O+L-1.
Positions(q, O, L) ==
  LET n == IF Len(q) - O < L THEN Len(q) - O ELSE L
  IN [i \in 1..(IF n < 0 THEN 0 ELSE n) |-> q[O + i]]

\* C17, as stated: getUserSessions(u, options), called by u with no order
\* given, succeeds with an ordering by start_time descending of exactly u's
\* stored sessions (with start_time in [start_date, end_date] when a date
\* range is given); with a limit L and an offset O it returns the elements at
\* the positions O..O+L-1 of such an ordering.
C17_ListIsOrderedPage ==
  \A u \in Users : \A o \in SessionListOptions :
    LET S == {s \in DOMAIN sessions :
                /\ sessions[s].user_id = u
                /\ o.hasRange => /\ sessions[s].start_time >= o.start_date
                                 /\ sessions[s].start_time <= o.end_date}
    IN ~o.ascending =>
         \A r \in getUserSessionsResponses(u, u, o) :
           /\ r.success
           /\ (o.limit = ABSENT /\ o.offset = 0) => r.data \in DescOrderings(S)
           /\ o.limit # ABSENT =>
                \E q \in DescOrderings(S) : r.data = Positions(q, o.offset, o.limit)

\* The stored sessions of owner u that carry the tag x.
SessionsCarrying(u, x) ==
  {s \in DOMAIN sessions :
     sessions[s].user_id = u /\ [session_id |-> s, tag |-> x] \in tags}

\* C18: getSessionsByTag(u, tag), called by u, succeeds with an ordering by
\* start_time descending of exactly the stored sessions of u that carry the
\* normalized tag: the empty sequence when there is none, and never a session
\* of another owner.
C18_SessionsByTag ==
  \A u \in Users : \A x \in RawTags :
    /\ getSessionsByTagResponses(u, u, x) # {}
    /\ \A r \in getSessionsByTagResponses(u, u, x) :
         /\ r.success
         /\ r.data \in DescOrderings(SessionsCarrying(u, NormalizeTag(x)))

\* C18 witness: a session of u and a session of another owner both carry "m",
\* and getSessionsByTag(u, "M") returns the session of u alone, while
\* getSessionsByTag(u, " ") returns none.
C18_Witness ==
  \E u \in Users : \E s, s2 \in DOMAIN sessions :
    /\ sessions[s].user_id = u
    /\ sessions[s2].user_id # u
    /\ [session_id |-> s, tag |-> <<"m">>] \in tags
    /\ [session_id |-> s2, tag |-> <<"m">>] \in tags
    /\ getSessionsByTagResponses(u, u, <<"M">>) = {Ok(<<s>>)}
    /\ getSessionsByTagResponses(u, u, <<" ">>) = {Ok(<<>>)}

\* The value r is an ApiResponse: success is true exactly when error is null,
\* and the data of a failure is null.
IsApiResponse(r) ==
  /\ DOMAIN r = {"data", "error", "success"}
  /\ r.success \in BOOLEAN
  /\ r.success <=> (r.error = "null")
  /\ ~r.success => r.data = NULL

C20_StoreFailureSurfaced ==
  \A p \in Users :
    /\ \A f \in StoreResults \ {"ok"} :
         /\ \A d \in SessionInserts : ~createSessionCallResponse(p, d, f).success
         /\ \A s \in SessionIds :
              /\ ~Handled(f, getSessionResponse(p, s)).success
              /\ \A u \in SessionUpdates :
                   ~Handled(f, updateSessionResponse(p, s, u)).success
              /\ \A e \in EndDatas : ~Handled(f, endSessionResponse(p, s, e)).success
              /\ ~Handled(f, deleteSessionResponse(p, s)).success
              /\ \A l \in TagLists : ~Handled(f, addSessionTagsResponse(p, s, l)).success
         /\ \A d \in TaskInserts : ~Handled(f, createTaskResponse(p, d)).success
         /\ \A k \in TaskIds : \A u \in TaskUpdates :
              ~Handled(f, updateTaskResponse(p, k, u)).success
    /\ \A l \in ReorderLists : \A fs \in [1..Len(l) -> StoreResults] :
         (\E i \in 1..Len(l) : fs[i] # "ok")
           => ~reorderTasksResponse(p, l, fs).success
    /\ \A e \in NewAccounts : \A f, g \in StoreResults :
         (f # "ok" \/ g # "ok") => ~signUpResponse(e, f, g).success

\* C21, as stated: every successful createSession call stores a session with
\* end_time absent and duration_minutes absent.
C21_CreatedActive ==
  \A p \in Users : \A d \in SessionInserts :
    createSessionResponse(p, d).success =>
      LET new == calculate_session_duration(InsertedRow(d))
      IN new.end_time = NULL /\ new.duration_minutes = NULL

\* C22, as stated: in every reachable state each owner has at most one
\* stored session with end_time absent.
C22_OneActivePerOwner ==
  \A u \in Users :
    Cardinality({s \in DOMAIN sessions :
                   sessions[s].user_id = u /\ sessions[s].end_time = NULL}) <= 1

\* C23: every stored session with end_time present has end_time strictly
\* greater than start_time, and an endSession call made while the clock is not
\* after the session's start_time fails and leaves the sessions unchanged.
C23_EndAfterStart ==
  /\ \A s \in DOMAIN sessions :
       sessions[s].end_time # NULL => sessions[s].end_time > sessions[s].start_time
  /\ \A p \in Users : \A s \in DOMAIN sessions : \A e \in EndDatas :
       clock <= sessions[s].start_time =>
         /\ ~endSessionResponse(p, s, e).success
         /\ sessionsAfterUpdate(p, s, EndUpdates(e)) = sessions

\* An ended session is stored, and its owner calls endSession on another of
\* their sessions at the instant that one started.
C23_Witness ==
  \E s, x \in DOMAIN sessions :
    /\ sessions[s].end_time # NULL
    /\ sessions[x].end_time = NULL
    /\ sessions[x].user_id = sessions[s].user_id
    /\ clock = sessions[x].start_time
    /\ \E e \in EndDatas :
         endSessionResponse(sessions[x].user_id, x, e) = Fail("23514")

\* The endSession calls on session s whose UPDATE was applied.
AppliedEnds(s) ==
  {c \in DOMAIN calls :
     calls[c].method = "endSession" /\ calls[c].id = s /\ calls[c].success}

\* The one applied last.
LastApplied(s) ==
  CHOOSE c \in AppliedEnds(s) : \A d \in AppliedEnds(s) : calls[d].seq <= calls[c].seq

\* C24: whatever the order in which overlapping endSession calls on one
\* session reach the store, the stored row carries the end_time (and the
\* supplied rating) of the update applied last, and its duration_minutes is
\* computed from that end_time.
C24_LastWriterWins ==
  \A s \in DOMAIN sessions :
    AppliedEnds(s) # {} =>
      LET u == calls[LastApplied(s)].updates
      IN /\ sessions[s].end_time = u.end_time
         /\ u.mood_rating # ABSENT => sessions[s].mood_rating = u.mood_rating
         /\ sessions[s].duration_minutes =
              CastToInteger(Seconds(u.end_time) - Seconds(sessions[s].start_time))

\* Two overlapping endSession calls on one session: the one that took the
\* later timestamp was applied first, and the durations of the two differ.
C24_Witness ==
  \E s \in DOMAIN sessions : \E c, d \in AppliedEnds(s) :
    /\ c < d
    /\ calls[c].seq > calls[d].seq
    /\ calls[c].updates.end_time < calls[d].updates.end_time
    /\ sessions[s].end_time = calls[c].updates.end_time
    /\ sessions[s].duration_minutes #
         CastToInteger(Seconds(calls[d].updates.end_time) - Seconds(sessions[s].start_time))

\* C25: every stored task has completed_at present iff is_completed is true;
\* a step that takes is_completed from false to true sets completed_at to the
\* time of the step, and a task whose is_completed is false after a step has
\* completed_at absent.
C25_CompletedAtIffCompleted ==
  /\ [](\A k \in DOMAIN tasks :
          (tasks[k].completed_at # NULL) <=> tasks[k].is_completed)
  /\ [][\A k \in DOMAIN tasks :
          /\ (~tasks[k].is_completed /\ tasks'[k].is_completed)
               => tasks'[k].completed_at = clock
          /\ ~tasks'[k].is_completed => tasks'[k].completed_at = NULL]_vars

\* A toggleTaskCompletion call has completed one task, stamped now, while
\* another task, completed earlier, has been set back to not completed.
C25_Witness ==
  /\ clock > 0
  /\ \E c \in DOMAIN calls :
       /\ calls[c].pc = "done" /\ calls[c].success
       /\ tasks[calls[c].id].is_completed
       /\ tasks[calls[c].id].completed_at = clock
  /\ \E c \in DOMAIN calls : \E k \in DOMAIN tasks :
       /\ calls[c].pc = "done" /\ calls[c].success /\ calls[c].id = k
       /\ calls[c].currentTask.is_completed
       /\ ~tasks[k].is_completed /\ tasks[k].completed_at = NULL

\* A rating outside 1..5 is supplied.
BadRating(updates) ==
  updates.mood_rating \notin {ABSENT, NULL} /\ ~(updates.mood_rating \in 1..5)

\* C26: an endSession or updateSession call that supplies a rating outside
\* 1..5 returns a failure and leaves every stored session as it was; every
\* stored rating is absent or in 1..5.
C26_BadRatingRejected ==
  /\ \A s \in DOMAIN sessions :
       sessions[s].mood_rating = NULL \/ sessions[s].mood_rating \in 1..5
  /\ \A p \in Users : \A s \in SessionIds :
       /\ \A u \in SessionUpdates :
            BadRating(u) => /\ ~updateSessionResponse(p, s, u).success
                            /\ sessionsAfterUpdate(p, s, u) = sessions
       /\ \A e \in EndDatas :
            BadRating(EndUpdates(e)) =>
              /\ ~endSessionResponse(p, s, e).success
              /\ sessionsAfterUpdate(p, s, EndUpdates(e)) = sessions

\* The owner of an active session that started earlier and carries a rating
\* calls endSession with a rating of 6: the call is refused for the rating,
\* where the same call with a rating of 3 would end the session.
C26_Witness ==
  \E s \in DOMAIN sessions :
    /\ sessions[s].end_time = NULL
    /\ sessions[s].mood_rating \in 1..5
    /\ endSessionResponse(sessions[s].user_id, s, [mood_rating |-> 6]) = Fail("23514")
    /\ endSessionResponse(sessions[s].user_id, s, [mood_rating |-> 3]).success
    /\ updateSessionResponse(sessions[s].user_id, s,
                             [end_time |-> ABSENT, mood_rating |-> 6]) = Fail("23514")

\* C27: removeSessionTag(S, tag), called by the owner of S, succeeds; after it
\* S has no tag equal to trim(lower-case(tag)), every other tag row of S and
\* of the other sessions is still there and none is new, and when the
\* normalized tag was not on S nothing changes.
C27_RemoveTagFrame ==
  \A s \in DOMAIN sessions : \A t \in RawTags :
    LET p == sessions[s].user_id
        gone == [session_id |-> s, tag |-> NormalizeTag(t)]
        after == tagsAfterRemove(p, s, t)
    IN /\ removeSessionTagResponse(p, s, t).success
       /\ gone \notin after
       /\ after \subseteq tags
       /\ \A r \in tags : r # gone => r \in after
       /\ gone \notin tags => after = tags

\* Session s carries "m" and another tag, another session carries "m" too,
\* and the owner of s removes "M": only the row (s, "m") goes.
C27_Witness ==
  \E s, x \in DOMAIN sessions :
    /\ s # x
    /\ [session_id |-> s, tag |-> <<"m">>] \in tags
    /\ [session_id |-> x, tag |-> <<"m">>] \in tags
    /\ \E r \in tags : r.session_id = s /\ r.tag # <<"m">>
    /\ tagsAfterRemove(sessions[s].user_id, s, <<"M">>)
         = tags \ {[session_id |-> s, tag |-> <<"m">>]}
    /\ tagsAfterRemove(sessions[s].user_id, s, <<"M">>) # tags

\* C28: a successful endSession(S, data) sets end_time of S to the current
\* clock value and the supplied fields of data; start_time and user_id of S
\* keep their values, a rating not supplied keeps its previous value, and no
\* other session is changed, added or removed.
C28_EndSessionFrame ==
  \A p \in Users : \A s \in SessionIds : \A e \in EndDatas :
    endSessionResponse(p, s, e).success =>
      LET after == sessionsAfterUpdate(p, s, EndUpdates(e))
      IN /\ DOMAIN after = DOMAIN sessions
         /\ after[s].end_time = clock
         /\ after[s].start_time = sessions[s].start_time
         /\ after[s].user_id = sessions[s].user_id
         /\ after[s].mood_rating = IF e.mood_rating = ABSENT
                                   THEN sessions[s].mood_rating
                                   ELSE e.mood_rating
         /\ \A x \in DOMAIN sessions : x # s => after[x] = sessions[x]

\* An active session that carries a rating is ended by its owner with no
\* rating supplied, while another session is stored.
C28_Witness ==
  \E s, x \in DOMAIN sessions :
    /\ s # x
    /\ sessions[s].end_time = NULL
    /\ sessions[s].mood_rating = 3
    /\ endSessionResponse(sessions[s].user_id, s, [mood_rating |-> ABSENT]).success
    /\ sessionsAfterUpdate(sessions[s].user_id, s,
                           EndUpdates([mood_rating |-> ABSENT]))[s].mood_rating = 3

\* The toggleTaskCompletion calls on task k, and those that returned success.
TogglesOn(k) ==
  {c \in DOMAIN calls : calls[c].method = "toggleTaskCompletion" /\ calls[c].id = k}

ToggledOk(k) == {c \in TogglesOn(k) : calls[c].pc = "done" /\ calls[c].success}

\* b flipped n times.
Flipped(b, n) == IF n % 2 = 0 THEN b ELSE ~b

\* C29, as stated: once every toggleTaskCompletion call on a task has
\* returned, with n of them successful, is_completed of the task is the value
\* the first call read, flipped n times, whatever the order of the calls' read
\* and write steps.
C29_ToggleAtomic ==
  \A k \in DOMAIN tasks :
    (ToggledOk(k) # {} /\ \A c \in TogglesOn(k) : calls[c].pc = "done") =>
      LET first == CHOOSE c \in ToggledOk(k) : \A d \in ToggledOk(k) : c <= d
      IN tasks[k].is_completed =
           Flipped(calls[first].currentTask.is_completed, Cardinality(ToggledOk(k)))

\* The sums of sessions_count and of total_minutes over a set of
\* daily_study_summary rows.
RECURSIVE SumSessionsCount(_)
SumSessionsCount(rows) ==
  IF rows = {} THEN 0
  ELSE LET r == CHOOSE x \in rows : TRUE
       IN r.sessions_count + SumSessionsCount(rows \ {r})

RECURSIVE SumTotalMinutes(_)
SumTotalMinutes(rows) ==
  IF rows = {} THEN 0
  ELSE LET r == CHOOSE x \in rows : TRUE
       IN r.total_minutes + SumTotalMinutes(rows \ {r})

\* C30: for every owner u with at least one ended session, getDailySummary(u)
\* and getUserStats(u) succeed, the sessions_count of the daily rows add up to
\* total_sessions and their total_minutes add up to total_minutes_studied.
C30_ViewsAgree ==
  \A u \in Users :
    (\E s \in DOMAIN sessions : sessions[s].user_id = u /\ sessions[s].end_time # NULL)
      => LET daily == getDailySummaryResponse(u, u)
             stats == getUserStatsResponse(u, u)
         IN /\ daily.success /\ stats.success
            /\ SumSessionsCount(daily.data) = stats.data.total_sessions
            /\ SumTotalMinutes(daily.data) = stats.data.total_minutes_studied

\* An owner with ended sessions started on two different days, of different
\* durations, and an active session besides: two daily rows, two sessions.
C30_Witness ==
  \E u \in Users : \E a, b, c \in DOMAIN sessions :
    /\ sessions[a].user_id = u /\ sessions[b].user_id = u /\ sessions[c].user_id = u
    /\ sessions[a].end_time # NULL /\ sessions[b].end_time # NULL
    /\ sessions[c].end_time = NULL
    /\ Date(sessions[a].start_time) # Date(sessions[b].start_time)
    /\ sessions[a].duration_minutes # sessions[b].duration_minutes
    /\ Cardinality(getDailySummaryResponse(u, u).data) = 2
    /\ getUserStatsResponse(u, u).data.total_sessions = 2

====
